---------------------------- MODULE Spec2Model ----------------------------
(***************************************************************************)
(* Model of UPSmodules/UPSgui.py of ups-utils: the GuiComp registry that   *)
(* binds (uuid, item name) pairs to Gtk labels and refreshes them from the *)
(* UPS data dictionary, and the GuiProps colour palette, hex-to-rgba       *)
(* conversion and css style list.                                          *)
(*                                                                         *)
(* Python strings that the code slices or inspects character by character  *)
(* are sequences of one-character strings; names that are only compared    *)
(* (uuids, item names, colour names, widget handles) are plain strings.    *)
(***************************************************************************)
EXTENDS Integers, Sequences, FiniteSets, TLC

VARIABLES
    gc,              \* GuiComp.gc: uuid -> items in dict insertion order
    data_dict,       \* GuiComp.data_dict: the UPS data source that is read
    max_width,       \* GuiComp.max_width
    label_text,      \* the text shown by each Gtk label handle
    set_text_calls,  \* the label.set_text calls of the most recent call
    err,             \* outcome of the most recent call: "ok" or the exception
    call,            \* the most recent step of the registry and its arguments
    added,           \* history: the (uuid, name) pairs passed to add so far
    _colors,         \* GuiProps._colors
    color_call,      \* the colour function called and its argument
    color_ret,       \* what that call returned or raised ("pending" before)
    css_str,         \* set_style: the argument of the most recent call
    css_list,        \* set_style: the css rules of the most recent call
    screen,          \* css providers added to the default screen, in order
    style_calls      \* the number of set_style calls made so far

vars == <<gc, data_dict, max_width, label_text, set_text_calls, err, call, added,
          _colors, color_call, color_ret, css_str, css_list, screen, style_calls>>

gui_vars == <<gc, data_dict, max_width, label_text, set_text_calls, call, added>>
color_vars == <<color_call, color_ret>>
style_vars == <<css_str, css_list, screen, style_calls>>

-----------------------------------------------------------------------------
(* Bounds of the model.                                                    *)

\* max_width is drawn from 1..MaxWidth.
MaxWidth == 3
\* hex_to_rgba is applied to every string of at most MaxHexLen characters
\* over HexAlphabet.
MaxHexLen == 7
\* set_style is called at most MaxStyleCalls times.
MaxStyleCalls == 3

Uuids == {"d1", "d2"}
ItemNames == {"mib_ups_name", "mib_system_status", "mib_battery_capacity"}
\* The (uuid, name) pairs the application wires to widgets with add.
Bindable ==
    {<<"d1", "mib_ups_name">>, <<"d1", "mib_battery_capacity">>,
     <<"d2", "mib_system_status">>}
\* The widgets passed to add: a label alone (box and box_name default to
\* None), and a label inside a named box.
Widgets ==
    {[label |-> "L1", box |-> "None", box_name |-> "None"],
     [label |-> "L2", box |-> "B1", box_name |-> "warn_box"]}
Labels == {w.label : w \in Widgets}
\* Characters of the strings passed to hex_to_rgba.
HexAlphabet == {"#", "0", "F", "f", "Z"}
\* css_str arguments of set_style that are not None.
CssTexts ==
    {"", "label { color: red; }", "#warn_box { background-image: image(#B73743); }",
     "grid { background-image: image(#333333); } entry { color: #0D0D0D; }"}
\* Colour names passed to color_name_to_hex and color_name_to_rgba that are
\* not keys of the palette.
OtherColorNames == {"", "White", "GREEN", "pink", "#FFFFFF"}

-----------------------------------------------------------------------------
(* Python values held by the data source.                                  *)

PyNone == [t |-> "NoneType", s |-> <<>>, n |-> 0]
PyStr(s) == [t |-> "str", s |-> s, n |-> 0]
PyInt(n) == [t |-> "int", s |-> <<>>, n |-> n]

Digits == <<"0", "1", "2", "3", "4", "5", "6", "7", "8", "9">>

RECURSIVE NatToStr(_)
NatToStr(n) ==
    IF n < 10 THEN <<Digits[n + 1]>>
    ELSE NatToStr(n \div 10) \o <<Digits[(n % 10) + 1]>>

\* str(value)
str(v) ==
    CASE v.t = "str" -> v.s
      [] v.t = "int" -> IF v.n < 0 THEN <<"-">> \o NatToStr(-v.n) ELSE NatToStr(v.n)
      [] v.t = "NoneType" -> <<"N", "o", "n", "e">>

\* value[:width] for width >= 0
Slice(s, width) == SubSeq(s, 1, IF Len(s) < width THEN Len(s) ELSE width)


-----------------------------------------------------------------------------
(* String literals of refresh_gui_data.                                    *)

S_minus1 == <<"-", "1">>
S_empty == <<>>
S_NoData == <<"N", "o", " ", "d", "a", "t", "a">>
S_None == <<"N", "o", "n", "e">>
S_Unresponsive == <<"U", "n", "r", "e", "s", "p", "o", "n", "s", "i", "v", "e">>
S_dashes == <<"-", "-", "-">>

\* {'-1', None, '', 'No data', 'None'}
NoDataValues == {PyStr(S_minus1), PyNone, PyStr(S_empty), PyStr(S_NoData), PyStr(S_None)}

\* {'mib_ups_name', 'mib_system_status'}
UnresponsiveItems == {"mib_ups_name", "mib_system_status"}

\* UPSmodule.UpsComm.all_mib_cmd_names[UPSmodule.UpsComm.MIB_group.static]
StaticItems == {"mib_ups_name"}

-----------------------------------------------------------------------------
(* The data source: the uuids it enumerates, in order, and the parameter   *)
(* values it holds for each of them.  A missing uuid or a missing item     *)
(* name is a KeyError on lookup.                                           *)

S_UPS1 == <<"U", "P", "S", "-", "1">>
S_UPS2 == <<"U", "P", "S", "-", "2">>
S_OnLine == <<"O", "n", "L", "i", "n", "e">>

Snap1 ==
    [uuids |-> <<"d1", "d2">>,
     prm |-> ("d1" :> ("mib_ups_name" :> PyStr(S_UPS1)
                       @@ "mib_system_status" :> PyStr(S_OnLine)
                       @@ "mib_battery_capacity" :> PyInt(-1))
              @@ "d2" :> ("mib_ups_name" :> PyStr(S_UPS2)
                          @@ "mib_system_status" :> PyStr(S_minus1)
                          @@ "mib_battery_capacity" :> PyInt(100)))]

Snap2 ==
    [uuids |-> <<"d2", "d1">>,
     prm |-> ("d1" :> ("mib_ups_name" :> PyStr(S_NoData)
                       @@ "mib_system_status" :> PyStr(S_OnLine)
                       @@ "mib_battery_capacity" :> PyStr(S_None))
              @@ "d2" :> ("mib_ups_name" :> PyStr(S_UPS2)
                          @@ "mib_system_status" :> PyNone
                          @@ "mib_battery_capacity" :> PyInt(100)))]

Snap3 ==
    [uuids |-> <<"d1">>,
     prm |-> ("d1" :> ("mib_system_status" :> PyStr(S_OnLine)
                       @@ "mib_battery_capacity" :> PyStr(S_empty)))]

DataSources == {Snap1, Snap2, Snap3}

\* self.data_dict.uuids()
uuids(dd) == dd.uuids

\* self.data_dict[uuid][item_name] raises KeyError
HasKey(dd, uuid, item_name) ==
    /\ uuid \in DOMAIN dd.prm
    /\ item_name \in DOMAIN dd.prm[uuid]

-----------------------------------------------------------------------------
(* GuiComp                                                                 *)

NewItem(name, label, box, box_name) ==
    [name |-> name, label |-> label, box |-> box, box_name |-> box_name,
     data |-> S_dashes]

ItemNamesOf(g, uuid) == {g[uuid][i].name : i \in DOMAIN g[uuid]}

IndexOf(items, name) == CHOOSE i \in DOMAIN items : items[i].name = name

\* dict.update({name: item}) on the inner dict: an existing key keeps its
\* place, a new key goes last.
UpdateItems(items, item) ==
    IF \E i \in DOMAIN items : items[i].name = item.name
    THEN [items EXCEPT ![IndexOf(items, item.name)] = item]
    ELSE Append(items, item)

\* Mutant of AddItem: the update of line 97 on every call, which replaces
\* the whole inner dict of a device that is already registered.
AddItem_ReplaceDevice(g, uuid, name, label, box, box_name) ==
    [u \in DOMAIN g \cup {uuid} |->
        IF u = uuid THEN <<NewItem(name, label, box, box_name)>> ELSE g[u]]

\* The body of GuiComp.add.
AddItem(g, uuid, name, label, box, box_name) ==
    IF uuid \notin DOMAIN g
    THEN g @@ (uuid :> <<NewItem(name, label, box, box_name)>>)
    ELSE [g EXCEPT ![uuid] = UpdateItems(g[uuid], NewItem(name, label, box, box_name))]

\* Mutant of DataValue: only a missing entry and None are replaced by a
\* placeholder, the sentinel strings are shown as they are.
DataValue_OnlyNone(dd, uuid, item_name, width) ==
    LET read == IF HasKey(dd, uuid, item_name) THEN dd.prm[uuid][item_name] ELSE PyNone
        value == IF read = PyNone
                 THEN PyStr(IF item_name \in UnresponsiveItems
                            THEN S_Unresponsive ELSE S_dashes)
                 ELSE read
    IN  Slice(str(value), width)

\* Mutant of DataValue: the text is not cut to the width.
DataValue_Uncut(dd, uuid, item_name, width) ==
    LET read == IF HasKey(dd, uuid, item_name) THEN dd.prm[uuid][item_name] ELSE PyNone
        value == IF read \in NoDataValues
                 THEN PyStr(IF item_name \in UnresponsiveItems
                            THEN S_Unresponsive ELSE S_dashes)
                 ELSE read
    IN  str(value)

\* Lines 119-125 of refresh_gui_data: the text shown for one item.
DataValue(dd, uuid, item_name, width) ==
    LET read == IF HasKey(dd, uuid, item_name) THEN dd.prm[uuid][item_name] ELSE PyNone
        value == IF read \in NoDataValues
                 THEN PyStr(IF item_name \in UnresponsiveItems
                            THEN S_Unresponsive ELSE S_dashes)
                 ELSE read
    IN  Slice(str(value), width)

\* if skip_static: if item_name in static names: continue
Skipped(item_name, skip_static) == skip_static /\ item_name \in StaticItems

RECURSIVE RefreshLoop(_, _, _, _, _, _, _, _)

\* Mutant of RefreshLoop: set_text is called with the text before it is cut
\* to the width.
RefreshLoop_LabelUncut(items, texts, calls, i, dd, uuid, skip_static, width) ==
    IF i > Len(items) THEN [items |-> items, texts |-> texts, calls |-> calls]
    ELSE IF Skipped(items[i].name, skip_static)
    THEN RefreshLoop(items, texts, calls, i + 1, dd, uuid, skip_static, width)
    ELSE LET data_value == DataValue(dd, uuid, items[i].name, width)
             uncut == DataValue(dd, uuid, items[i].name, width + Len(S_Unresponsive))
         IN  RefreshLoop([items EXCEPT ![i].data = data_value],
                         [texts EXCEPT ![items[i].label] = uncut],
                         Append(calls, <<items[i].label, uncut>>),
                         i + 1, dd, uuid, skip_static, width)

\* The loop of refresh_gui_data over self.gc[uuid].items(), from item i on.
RefreshLoop(items, texts, calls, i, dd, uuid, skip_static, width) ==
    IF i > Len(items) THEN [items |-> items, texts |-> texts, calls |-> calls]
    ELSE IF Skipped(items[i].name, skip_static)
    THEN RefreshLoop(items, texts, calls, i + 1, dd, uuid, skip_static, width)
    ELSE LET data_value == DataValue(dd, uuid, items[i].name, width)
         IN  RefreshLoop([items EXCEPT ![i].data = data_value],
                         [texts EXCEPT ![items[i].label] = data_value],
                         Append(calls, <<items[i].label, data_value>>),
                         i + 1, dd, uuid, skip_static, width)

\* Mutant of Refresh: self.gc.get(uuid, {}), so that a uuid that is not a
\* key of the registry is an empty pass.
Refresh_GetDefault(g, texts, dd, uuid, skip_static, width) ==
    IF uuid \notin DOMAIN g
    THEN [gc |-> g, texts |-> texts, calls |-> <<>>, err |-> "ok"]
    ELSE LET r == RefreshLoop(g[uuid], texts, <<>>, 1, dd, uuid, skip_static, width)
         IN  [gc |-> [g EXCEPT ![uuid] = r.items], texts |-> r.texts,
              calls |-> r.calls, err |-> "ok"]

\* refresh_gui_data on registry g and label texts: self.gc[uuid] raises
\* KeyError for a uuid that is not a key of the registry.
Refresh(g, texts, dd, uuid, skip_static, width) ==
    IF uuid \notin DOMAIN g
    THEN [gc |-> g, texts |-> texts, calls |-> <<>>, err |-> "KeyError"]
    ELSE LET r == RefreshLoop(g[uuid], texts, <<>>, 1, dd, uuid, skip_static, width)
         IN  [gc |-> [g EXCEPT ![uuid] = r.items], texts |-> r.texts,
              calls |-> r.calls, err |-> "ok"]

\* The loop of all_refresh_gui_data over self.data_dict.uuids(), from the
\* i-th uuid on; an exception of refresh_gui_data ends it.
RECURSIVE RefreshAll(_, _, _, _, _, _, _)
RefreshAll(g, texts, calls, i, dd, skip_static, width) ==
    IF i > Len(uuids(dd))
    THEN [gc |-> g, texts |-> texts, calls |-> calls, err |-> "ok"]
    ELSE LET r == Refresh(g, texts, dd, uuids(dd)[i], skip_static, width)
         IN  IF r.err # "ok"
             THEN [gc |-> r.gc, texts |-> r.texts, calls |-> calls \o r.calls,
                   err |-> r.err]
             ELSE RefreshAll(r.gc, r.texts, calls \o r.calls, i + 1, dd,
                             skip_static, width)

-----------------------------------------------------------------------------
(* GuiProps: the colour palette and the colour conversions.                *)

Palette ==
    "white" :> <<"#", "F", "F", "F", "F", "F", "F">>
    @@ "white_off" :> <<"#", "F", "C", "F", "C", "F", "C">>
    @@ "white_pp" :> <<"#", "F", "0", "E", "5", "D", "3">>
    @@ "cream" :> <<"#", "F", "F", "F", "D", "D", "1">>
    @@ "gray20" :> <<"#", "C", "C", "C", "C", "C", "C">>
    @@ "gray50" :> <<"#", "7", "F", "7", "F", "7", "F">>
    @@ "gray60" :> <<"#", "6", "6", "6", "6", "6", "6">>
    @@ "gray70" :> <<"#", "4", "D", "4", "D", "4", "D">>
    @@ "gray80" :> <<"#", "3", "3", "3", "3", "3", "3">>
    @@ "gray95" :> <<"#", "0", "D", "0", "D", "0", "D">>
    @@ "gray_dk" :> <<"#", "6", "A", "6", "8", "6", "E">>
    @@ "black" :> <<"#", "0", "0", "0", "0", "0", "0">>
    @@ "green" :> <<"#", "8", "E", "C", "3", "A", "7">>
    @@ "green_dk" :> <<"#", "6", "A", "9", "0", "7", "C">>
    @@ "teal" :> <<"#", "2", "1", "8", "C", "8", "D">>
    @@ "cyan" :> <<"#", "0", "0", "8", "B", "8", "B">>
    @@ "olive" :> <<"#", "6", "C", "9", "0", "4", "0">>
    @@ "red" :> <<"#", "B", "7", "3", "7", "4", "3">>
    @@ "orange" :> <<"#", "E", "8", "6", "8", "5", "0">>
    @@ "yellow" :> <<"#", "C", "9", "A", "1", "0", "0">>
    @@ "blue" :> <<"#", "5", "8", "7", "4", "9", "8">>
    @@ "purple" :> <<"#", "6", "2", "6", "4", "A", "7">>
    @@ "br_red" :> <<"#", "F", "F", "2", "D", "2", "D">>
    @@ "br_orange" :> <<"#", "F", "F", "6", "3", "1", "6">>
    @@ "br_blue" :> <<"#", "6", "6", "C", "C", "F", "F">>
    @@ "br_pink" :> <<"#", "C", "C", "0", "0", "F", "F">>
    @@ "br_green" :> <<"#", "9", "9", "F", "F", "9", "9">>
    @@ "br_yellow" :> <<"#", "F", "F", "F", "F", "6", "6">>
    @@ "slate_lt" :> <<"#", "A", "0", "A", "0", "A", "A">>
    @@ "slate_md" :> <<"#", "8", "0", "8", "0", "8", "d">>
    @@ "slate_dk" :> <<"#", "5", "D", "5", "D", "6", "7">>
    @@ "slate_vdk" :> <<"#", "3", "A", "3", "A", "4", "0">>

HexDigitValue ==
    "0" :> 0 @@ "1" :> 1 @@ "2" :> 2 @@ "3" :> 3 @@ "4" :> 4 @@ "5" :> 5
    @@ "6" :> 6 @@ "7" :> 7 @@ "8" :> 8 @@ "9" :> 9
    @@ "A" :> 10 @@ "B" :> 11 @@ "C" :> 12 @@ "D" :> 13 @@ "E" :> 14 @@ "F" :> 15
    @@ "a" :> 10 @@ "b" :> 11 @@ "c" :> 12 @@ "d" :> 13 @@ "e" :> 14 @@ "f" :> 15

IsHexDigit(c) == c \in DOMAIN HexDigitValue

\* re.fullmatch(PATTERNS['HEXRGB'], value): an optional '#' and six
\* hexadecimal digits.
MatchesHEXRGB(value) ==
    LET digits == IF Len(value) > 0 /\ value[1] = "#" THEN Tail(value) ELSE value
    IN  /\ Len(digits) = 6
        /\ \A i \in 1..6 : IsHexDigit(digits[i])

\* value.lstrip('#')
RECURSIVE lstrip(_)
lstrip(value) ==
    IF Len(value) > 0 /\ value[1] = "#" THEN lstrip(Tail(value)) ELSE value

\* int(s, 16) for a two-character s; -1 stands for its ValueError.
int16(s) ==
    IF \A i \in DOMAIN s : IsHexDigit(s[i])
    THEN 16 * HexDigitValue[s[1]] + HexDigitValue[s[2]]
    ELSE -1

\* What a colour function returns or raises.
NoSeq == <<>>
Pending == [kind |-> "pending", hex |-> NoSeq, rgba |-> NoSeq]
Raised(exc) == [kind |-> exc, hex |-> NoSeq, rgba |-> NoSeq]
ReturnHex(h) == [kind |-> "hex", hex |-> h, rgba |-> NoSeq]
ReturnRgba(t) == [kind |-> "rgba", hex |-> NoSeq, rgba |-> t]

\* The float n / 255.0 and the int 1, as exact fractions.
Frac(num, den) == [num |-> num, den |-> den]

\* Mutant of HexToRgba: the leading '#' is taken off with value[1:].
HexToRgba_DropFirst(value) ==
    IF ~MatchesHEXRGB(value) THEN Raised("ValueError")
    ELSE LET v == Tail(value)
         IN  IF Len(v) # 6 THEN Raised("ValueError")
             ELSE LET r_1 == int16(SubSeq(v, 1, 2))
                      g_1 == int16(SubSeq(v, 3, 4))
                      b_1 == int16(SubSeq(v, 5, 6))
                  IN  IF r_1 < 0 \/ g_1 < 0 \/ b_1 < 0 THEN Raised("ValueError")
                      ELSE ReturnRgba(<<Frac(r_1, 255), Frac(g_1, 255),
                                        Frac(b_1, 255), Frac(1, 1)>>)

\* GuiProps.hex_to_rgba(value)
HexToRgba(value) ==
    IF ~MatchesHEXRGB(value) THEN Raised("ValueError")
    ELSE LET v == lstrip(value)
         IN  IF Len(v) # 6 THEN Raised("ValueError")
             ELSE LET r_1 == int16(SubSeq(v, 1, 2))
                      g_1 == int16(SubSeq(v, 3, 4))
                      b_1 == int16(SubSeq(v, 5, 6))
                  IN  IF r_1 < 0 \/ g_1 < 0 \/ b_1 < 0 THEN Raised("ValueError")
                      ELSE ReturnRgba(<<Frac(r_1, 255), Frac(g_1, 255),
                                        Frac(b_1, 255), Frac(1, 1)>>)

\* Mutant of ColorNameToHex: _colors.get(value, _colors['white']).
ColorNameToHex_Default(cls_colors, value) ==
    IF value \notin DOMAIN cls_colors THEN ReturnHex(cls_colors["white"])
    ELSE ReturnHex(cls_colors[value])

\* GuiProps.color_name_to_hex(value)
ColorNameToHex(cls_colors, value) ==
    IF value \notin DOMAIN cls_colors THEN Raised("ValueError")
    ELSE ReturnHex(cls_colors[value])

\* GuiProps.color_name_to_rgba(value)
ColorNameToRgba(cls_colors, value) ==
    IF value \notin DOMAIN cls_colors THEN Raised("ValueError")
    ELSE HexToRgba(cls_colors[value])

-----------------------------------------------------------------------------
(* GuiProps.set_style                                                      *)

\* A css item: one of the default rules (a selector with its properties,
\* each a <<property, colour>> pair) or the caller's css text.
Rule(selector, props) == [selector |-> selector, props |-> props, text |-> ""]
RawCss(text) == [selector |-> "", props |-> <<>>, text |-> text]

\* The rules appended to css_list when css_str is None.
DefaultCss(cls_colors) ==
    <<
       Rule("grid", <<<<"background-image", cls_colors["gray80"]>>>>),
       Rule("#light_grid", <<<<"background-image", cls_colors["gray20"]>>>>),
       Rule("#dark_grid", <<<<"background-image", cls_colors["gray70"]>>>>),
       Rule("#dark_box", <<<<"background-image", cls_colors["slate_dk"]>>>>),
       Rule("#med_box", <<<<"background-image", cls_colors["slate_md"]>>>>),
       Rule("#light_box", <<<<"background-image", cls_colors["slate_lt"]>>>>),
       Rule("#head_box", <<<<"background-image", cls_colors["blue"]>>>>),
       Rule("#warn_box", <<<<"background-image", cls_colors["red"]>>>>),
       Rule("#button_box", <<<<"background-image", cls_colors["slate_dk"]>>>>),
       Rule("#out_load_box", <<<<"background-image", cls_colors["slate_md"]>>>>),
       Rule("#out_load_label", <<<<"color", cls_colors["white_off"]>>>>),
       Rule("#bat_cap_box", <<<<"background-image", cls_colors["slate_md"]>>>>),
       Rule("#bat_cap_label", <<<<"color", cls_colors["white_off"]>>>>),
       Rule("#sys_stat_box", <<<<"background-image", cls_colors["slate_md"]>>>>),
       Rule("#sys_stat_label", <<<<"color", cls_colors["white_off"]>>>>),
       Rule("#bat_stat_box", <<<<"background-image", cls_colors["slate_md"]>>>>),
       Rule("#bat_stat_label", <<<<"color", cls_colors["white_off"]>>>>),
       Rule("#message_box", <<<<"background-image", cls_colors["gray50"]>>>>),
       Rule("#message_label", <<<<"color", cls_colors["white_off"]>>>>),
       Rule("#warn_label", <<<<"color", cls_colors["white_pp"]>>>>),
       Rule("#white_label", <<<<"color", cls_colors["white_off"]>>>>),
       Rule("#black_label", <<<<"color", cls_colors["gray95"]>>>>),
       Rule("#ppm_combo", <<<<"background-image", cls_colors["green"]>>, <<"color", cls_colors["black"]>>>>),
       Rule("button", <<<<"background-image", cls_colors["slate_lt"]>>, <<"color", cls_colors["black"]>>>>),
       Rule("entry", <<<<"background-image", cls_colors["green"]>>, <<"color", cls_colors["gray95"]>>>>),
       Rule("entry:selected", <<<<"background-image", cls_colors["yellow"]>>, <<"color", cls_colors["white"]>>>>)
    >>

CssNone == [t |-> "NoneType", s |-> ""]
CssStr(text) == [t |-> "str", s |-> text]

\* Mutant of CssList: the caller's css text is appended to the default rules.
CssList_AppendCustom(cls_colors, arg) ==
    IF arg.t = "NoneType" THEN DefaultCss(cls_colors)
    ELSE Append(DefaultCss(cls_colors), RawCss(arg.s))

\* css_list of set_style(css_str)
CssList(cls_colors, arg) ==
    IF arg.t = "NoneType" THEN DefaultCss(cls_colors) ELSE <<RawCss(arg.s)>>

-----------------------------------------------------------------------------
(* Operations of the registry.                                             *)

Call(op, uuid, name, skip_static) ==
    [op |-> op, uuid |-> uuid, name |-> name, skip_static |-> skip_static]

\* GuiComp.add(uuid, name, label, box, box_name)
add(uuid, name, label, box, box_name) ==
    /\ gc' = AddItem(gc, uuid, name, label, box, box_name)
    /\ added' = added \cup {<<uuid, name>>}
    /\ set_text_calls' = <<>>
    /\ err' = "ok"
    /\ call' = Call("add", uuid, name, FALSE)
    /\ UNCHANGED <<data_dict, max_width, label_text, _colors, color_vars, style_vars>>

\* GuiComp.refresh_gui_data(uuid, skip_static)
refresh_gui_data(uuid, skip_static) ==
    \E r \in {Refresh(gc, label_text, data_dict, uuid, skip_static, max_width)} :
        /\ gc' = r.gc
        /\ label_text' = r.texts
        /\ set_text_calls' = r.calls
        /\ err' = r.err
        /\ call' = Call("refresh_gui_data", uuid, "", skip_static)
        /\ UNCHANGED <<data_dict, max_width, added, _colors, color_vars, style_vars>>

\* GuiComp.all_refresh_gui_data(skip_static)
all_refresh_gui_data(skip_static) ==
    \E r \in {RefreshAll(gc, label_text, <<>>, 1, data_dict, skip_static, max_width)} :
        /\ gc' = r.gc
        /\ label_text' = r.texts
        /\ set_text_calls' = r.calls
        /\ err' = r.err
        /\ call' = Call("all_refresh_gui_data", "", "", skip_static)
        /\ UNCHANGED <<data_dict, max_width, added, _colors, color_vars, style_vars>>

\* The surrounding application polls the UPSs: the data source takes new
\* contents between two calls of the registry.
DataPoll ==
    /\ data_dict' \in DataSources \ {data_dict}
    /\ call' = Call("poll", "", "", FALSE)
    /\ UNCHANGED <<gc, max_width, label_text, set_text_calls, err, added,
                   _colors, color_vars, style_vars>>

-----------------------------------------------------------------------------
(* Operations of GuiProps.                                                 *)

\* GuiProps.hex_to_rgba(value), applied to the pending call's argument.
hex_to_rgba ==
    /\ color_call.op = "hex_to_rgba"
    /\ color_ret = Pending
    /\ color_ret' = HexToRgba(color_call.hex)
    /\ err' = IF color_ret'.kind = "ValueError" THEN "ValueError" ELSE "ok"
    /\ UNCHANGED <<gui_vars, _colors, color_call, style_vars>>

\* GuiProps.color_name_to_hex(value); get_color(value) is the same call.
color_name_to_hex ==
    /\ color_call.op = "color_name_to_hex"
    /\ color_ret = Pending
    /\ color_ret' = ColorNameToHex(_colors, color_call.name)
    /\ err' = IF color_ret'.kind = "ValueError" THEN "ValueError" ELSE "ok"
    /\ UNCHANGED <<gui_vars, _colors, color_call, style_vars>>

\* GuiProps.color_name_to_rgba(value)
color_name_to_rgba ==
    /\ color_call.op = "color_name_to_rgba"
    /\ color_ret = Pending
    /\ color_ret' = ColorNameToRgba(_colors, color_call.name)
    /\ err' = IF color_ret'.kind = "ValueError" THEN "ValueError" ELSE "ok"
    /\ UNCHANGED <<gui_vars, _colors, color_call, style_vars>>

\* GuiProps.set_style(css_str): builds css_list and adds one css provider
\* per item to the default screen.
set_style(arg) ==
    /\ style_calls < MaxStyleCalls
    /\ style_calls' = style_calls + 1
    /\ css_str' = arg
    /\ css_list' = CssList(_colors, arg)
    /\ screen' = screen \o css_list'
    /\ err' = "ok"
    /\ UNCHANGED <<gui_vars, _colors, color_vars>>

-----------------------------------------------------------------------------
(* Initial states.                                                         *)

\* GuiComp.__init__(data_dict, max_width)
InitGui ==
    /\ gc = [u \in {} |-> <<>>]
    /\ call = Call("__init__", "", "", FALSE)
    /\ data_dict \in DataSources
    /\ max_width \in 1..MaxWidth
    /\ label_text = [l \in Labels |-> S_empty]
    /\ set_text_calls = <<>>
    /\ added = {}

\* A registry that is constructed and not used.
IdleGui ==
    /\ gc = [u \in {} |-> <<>>]
    /\ call = Call("__init__", "", "", FALSE)
    /\ data_dict = Snap1
    /\ max_width = MaxWidth
    /\ label_text = [l \in Labels |-> S_empty]
    /\ set_text_calls = <<>>
    /\ added = {}

HexInputs == UNION {[1..n -> HexAlphabet] : n \in 0..MaxHexLen}
ColorNames == DOMAIN Palette \cup OtherColorNames

NoCall == [op |-> "none", name |-> "", hex |-> NoSeq]

HexCalls == {[op |-> "hex_to_rgba", name |-> "", hex |-> h] : h \in HexInputs}

NameCalls ==
    {[op |-> o, name |-> n, hex |-> NoSeq] :
        o \in {"color_name_to_hex", "color_name_to_rgba"}, n \in ColorNames}

ColorCalls == HexCalls \cup NameCalls

IdleColor == color_call = NoCall /\ color_ret = Pending

IdleStyle == css_str = CssNone /\ css_list = <<>> /\ screen = <<>> /\ style_calls = 0

Init ==
    /\ InitGui
    /\ IdleColor
    /\ IdleStyle
    /\ _colors = Palette
    /\ err = "ok"

InitColor ==
    /\ IdleGui
    /\ color_call \in ColorCalls
    /\ color_ret = Pending
    /\ IdleStyle
    /\ _colors = Palette
    /\ err = "ok"

InitPalette ==
    /\ IdleGui
    /\ color_call \in NameCalls
    /\ color_ret = Pending
    /\ IdleStyle
    /\ _colors = Palette
    /\ err = "ok"

InitStyle ==
    /\ IdleGui
    /\ IdleColor
    /\ IdleStyle
    /\ _colors = Palette
    /\ err = "ok"

-----------------------------------------------------------------------------
(* Specifications.                                                         *)

Next ==
    \/ \E k \in Bindable, w \in Widgets : add(k[1], k[2], w.label, w.box, w.box_name)
    \/ \E uuid \in Uuids, skip_static \in BOOLEAN : refresh_gui_data(uuid, skip_static)
    \/ \E skip_static \in BOOLEAN : all_refresh_gui_data(skip_static)
    \/ DataPoll

NextColor ==
    \/ hex_to_rgba
    \/ color_name_to_hex
    \/ color_name_to_rgba

NextStyle ==
    \E arg \in {CssNone} \cup {CssStr(t) : t \in CssTexts} : set_style(arg)

\* The display registry.
Spec == Init /\ [][Next]_vars

\* The colour functions, each applied once to every input.
SpecColor == InitColor /\ [][NextColor]_vars

\* The lookups by colour name, each applied once to every name.
NextPalette ==
    \/ color_name_to_hex
    \/ color_name_to_rgba

SpecPalette == InitPalette /\ [][NextPalette]_vars

\* The style sheet.
SpecStyle == InitStyle /\ [][NextStyle]_vars

-----------------------------------------------------------------------------
(* Properties of the display registry, checked under Spec.                 *)

Min(a, b) == IF a < b THEN a ELSE b

\* The step is the call refresh_gui_data(d, s).
IsRefresh(d, s) ==
    /\ call' = Call("refresh_gui_data", d, "", s)
    /\ refresh_gui_data(d, s)

\* The step is the call all_refresh_gui_data(s).
IsRefreshAll(s) ==
    /\ call' = Call("all_refresh_gui_data", "", "", s)
    /\ all_refresh_gui_data(s)

\* The step is the call add(d, f, w.label, w.box, w.box_name).
IsAdd(d, f, w) ==
    /\ call' = Call("add", d, f, FALSE)
    /\ add(d, f, w.label, w.box, w.box_name)

\* r is s cut to its first width characters.
IsPrefixOfWidth(r, s, width) ==
    /\ Len(r) = Min(Len(s), width)
    /\ \A j \in 1..Len(r) : r[j] = s[j]

\* The text the refresh policy shows for item f of device d before it is
\* cut to the display width: a placeholder for a missing entry or a no-data
\* sentinel, the textual representation of the value otherwise.
PolicyText(dd, d, f) ==
    LET present == d \in DOMAIN dd.prm /\ f \in DOMAIN dd.prm[d]
        nodata == \/ ~present
                  \/ dd.prm[d][f].t = "NoneType"
                  \/ /\ dd.prm[d][f].t = "str"
                     /\ dd.prm[d][f].s \in {<<"-", "1">>, <<>>, <<"N", "o", " ", "d", "a", "t", "a">>, <<"N", "o", "n", "e">>}
    IN  IF nodata
        THEN IF f \in {"mib_ups_name", "mib_system_status"}
             THEN <<"U", "n", "r", "e", "s", "p", "o", "n", "s", "i", "v", "e">> ELSE <<"-", "-", "-">>
        ELSE str(dd.prm[d][f])

\* C1: after refresh(d) on a registered device, the lastValue of every item
\* of d that skipStatic does not skip is the policy text of the data source's
\* value, cut to its first max_width characters.
C1_RefreshAppliesPolicy ==
    [][\A d \in Uuids, s \in BOOLEAN :
          (d \in DOMAIN gc /\ IsRefresh(d, s)) =>
              /\ DOMAIN gc'[d] = DOMAIN gc[d]
              /\ \A i \in DOMAIN gc[d] :
                    ~(s /\ gc[d][i].name \in StaticItems) =>
                        IsPrefixOfWidth(gc'[d][i].data,
                                        PolicyText(data_dict, d, gc[d][i].name),
                                        max_width)]_vars

\* C1 witness: a refresh has replaced a no-data value of an identity item by
\* "Unresponsive", cut to a width of 3, and has shown an integer value by its
\* decimal text.
C1_Witness ==
    /\ call.op = "refresh_gui_data"
    /\ err = "ok"
    /\ max_width = 3
    /\ call.uuid \in DOMAIN gc
    /\ \E i \in DOMAIN gc[call.uuid] :
          /\ gc[call.uuid][i].name = "mib_ups_name"
          /\ gc[call.uuid][i].data = <<"U", "n", "r">>
    /\ \E i \in DOMAIN gc[call.uuid] :
          /\ gc[call.uuid][i].name = "mib_battery_capacity"
          /\ gc[call.uuid][i].data = <<"-", "1">>

\* C2: refresh of a device that has no entry in the registry raises the
\* unknown-device error (KeyError) and changes no binding, no label text and
\* nothing of the data source.
C2_RefreshUnknownDevice ==
    [][\A d \in Uuids, s \in BOOLEAN :
          (d \notin DOMAIN gc /\ IsRefresh(d, s)) =>
              /\ err' = "KeyError"
              /\ gc' = gc
              /\ label_text' = label_text
              /\ set_text_calls' = <<>>
              /\ data_dict' = data_dict]_vars

\* C2 witness: refresh of an unregistered device has failed while another
\* device has a binding that was refreshed before.
C2_Witness ==
    /\ call.op = "refresh_gui_data"
    /\ call.uuid \notin DOMAIN gc
    /\ err = "KeyError"
    /\ \E d \in DOMAIN gc : \E i \in DOMAIN gc[d] :
          /\ gc[d][i].data # <<"-", "-", "-">>
          /\ label_text[gc[d][i].label] = gc[d][i].data


\* The items of device d that a refresh with skipStatic = s does not skip.
Refreshed(g, d, s) == {i \in DOMAIN g[d] : ~(s /\ g[d][i].name \in StaticItems)}

\* The devices the data source enumerates.
Enumerated(dd) == {dd.uuids[k] : k \in DOMAIN dd.uuids}

\* C3 (as claimed): refreshAll completes without error whichever devices the
\* data source enumerates, and refreshes every binding (not skipped) of
\* every enumerated device that is registered.
C3_RefreshAllPassesUnregistered ==
    [][\A s \in BOOLEAN :
          IsRefreshAll(s) =>
              /\ err' = "ok"
              /\ \A d \in Enumerated(data_dict) \cap DOMAIN gc :
                    \A i \in Refreshed(gc, d, s) :
                        IsPrefixOfWidth(gc'[d][i].data,
                                        PolicyText(data_dict, d, gc[d][i].name),
                                        max_width)]_vars

\* C4 (as claimed): refresh(d, TRUE) and refreshAll(TRUE) leave every static
\* binding untouched (same lastValue, no set_text call on its label) and
\* still refresh the other items of the same device.
C4_StaticLeftOthersRefreshed(d) ==
    \A i \in DOMAIN gc[d] :
        IF gc[d][i].name \in StaticItems
        THEN /\ gc'[d][i] = gc[d][i]
             /\ \A k \in DOMAIN set_text_calls' :
                   set_text_calls'[k][1] # gc[d][i].label
        ELSE IsPrefixOfWidth(gc'[d][i].data,
                             PolicyText(data_dict, d, gc[d][i].name), max_width)

C4_SkipStaticLeavesStatic ==
    [][/\ \A d \in Uuids :
             (d \in DOMAIN gc /\ IsRefresh(d, TRUE)) => C4_StaticLeftOthersRefreshed(d)
       /\ IsRefreshAll(TRUE) =>
             \A d \in Enumerated(data_dict) \cap DOMAIN gc :
                 C4_StaticLeftOthersRefreshed(d)]_vars


\* The names passed to add for device d so far.
AddedNames(d) == {a[2] : a \in {b \in added : b[1] = d}}

\* The registry holds exactly the keys passed to add, each once.
C5_KeysAreAdded ==
    /\ DOMAIN gc = {a[1] : a \in added}
    /\ \A d \in DOMAIN gc :
          /\ ItemNamesOf(gc, d) = AddedNames(d)
          /\ Len(gc[d]) = Cardinality(AddedNames(d))

\* add(d, f, w) succeeds, binds (d, f) to the handles of this call with
\* lastValue "---", and leaves every other binding and every label text as
\* it was.
C5_AddEffect(d, f, w) ==
    /\ err' = "ok"
    /\ d \in DOMAIN gc'
    /\ \E i \in DOMAIN gc'[d] :
          gc'[d][i] = [name |-> f, label |-> w.label, box |-> w.box,
                       box_name |-> w.box_name, data |-> <<"-", "-", "-">>]
    /\ \A e \in DOMAIN gc : \A i \in DOMAIN gc[e] :
          (e # d \/ gc[e][i].name # f) =>
              /\ e \in DOMAIN gc'
              /\ \E j \in DOMAIN gc'[e] : gc'[e][j] = gc[e][i]
    /\ \A e \in DOMAIN gc' : \A j \in DOMAIN gc'[e] :
          (e # d \/ gc'[e][j].name # f) =>
              /\ e \in DOMAIN gc
              /\ \E i \in DOMAIN gc[e] : gc[e][i] = gc'[e][j]
    /\ label_text' = label_text

\* C5: in every state the item names registered under each device are
\* exactly those passed to add for it; add never fails, (re)binds its key to
\* the handles of the call with lastValue "---" and changes no other binding.
C5_AddKeepsRegistry ==
    /\ []C5_KeysAreAdded
    /\ [][\A k \in Bindable, w \in Widgets :
             IsAdd(k[1], k[2], w) => C5_AddEffect(k[1], k[2], w)]_vars

\* C5 witness: add was called again for the first-added item of a device
\* that has two items; the item is back at "---" with the widget of this
\* call, and the other item keeps its refreshed value.
C5_Witness ==
    /\ call.op = "add"
    /\ call.uuid \in DOMAIN gc
    /\ Len(gc[call.uuid]) = 2
    /\ gc[call.uuid][1].name = call.name
    /\ gc[call.uuid][1].data = <<"-", "-", "-">>
    /\ gc[call.uuid][1].box = "B1"
    /\ gc[call.uuid][2].data = <<"U", "n", "r">>
    /\ label_text[gc[call.uuid][1].label] = <<"U", "P", "S">>

\* What refresh(d, s) never changes: the data source, the keys of the
\* registry, the handles of every binding and the lastValue of the bindings
\* of other devices; and it pushes to the label of each refreshed binding of
\* d the binding's new lastValue.
C9_RefreshKeeps(d, s) ==
    /\ data_dict' = data_dict
    /\ DOMAIN gc' = DOMAIN gc
    /\ \A e \in DOMAIN gc :
          /\ DOMAIN gc'[e] = DOMAIN gc[e]
          /\ \A i \in DOMAIN gc[e] :
                /\ gc'[e][i].name = gc[e][i].name
                /\ gc'[e][i].label = gc[e][i].label
                /\ gc'[e][i].box = gc[e][i].box
                /\ gc'[e][i].box_name = gc[e][i].box_name
                /\ e # d => gc'[e][i].data = gc[e][i].data
    /\ d \in DOMAIN gc =>
          /\ Len(set_text_calls') = Cardinality(Refreshed(gc, d, s))
          /\ \A i \in Refreshed(gc, d, s) :
                \E k \in DOMAIN set_text_calls' :
                    set_text_calls'[k] = <<gc[d][i].label, gc'[d][i].data>>
    /\ d \notin DOMAIN gc => set_text_calls' = <<>>

\* The labels of the bindings of d that refresh(d, s) refreshes.
RefreshedLabels(d, s) ==
    IF d \in DOMAIN gc THEN {gc[d][i].label : i \in Refreshed(gc, d, s)} ELSE {}

\* C9 (as claimed): refresh(d) also leaves the label text of every binding
\* of every other device unchanged.
C9_RefreshFrameAsClaimed ==
    [][\A d \in Uuids, s \in BOOLEAN :
          IsRefresh(d, s) =>
              /\ C9_RefreshKeeps(d, s)
              /\ \A e \in DOMAIN gc \ {d} : \A i \in DOMAIN gc[e] :
                    label_text'[gc[e][i].label] = label_text[gc[e][i].label]]_vars

\* C9 (amended): refresh(d) leaves unchanged the text of every label that is
\* not the label of a refreshed binding of d.
C9_RefreshFrame ==
    [][\A d \in Uuids, s \in BOOLEAN :
          IsRefresh(d, s) =>
              /\ C9_RefreshKeeps(d, s)
              /\ \A l \in Labels \ RefreshedLabels(d, s) :
                    label_text'[l] = label_text[l]]_vars

\* C9 witness: refresh of d1 has shown a value on its label while d2, bound
\* to the other label, keeps the value and the text of its earlier refresh.
C9_Witness ==
    /\ call = Call("refresh_gui_data", "d1", "", FALSE)
    /\ err = "ok"
    /\ "d1" \in DOMAIN gc /\ "d2" \in DOMAIN gc
    /\ \A i \in DOMAIN gc["d1"] :
          /\ gc["d1"][i].label = "L1"
          /\ gc["d1"][i].data = <<"-", "1">>
    /\ label_text["L1"] = <<"-", "1">>
    /\ gc["d2"][1].label = "L2"
    /\ gc["d2"][1].data = <<"U", "n", "r">>
    /\ label_text["L2"] = <<"U", "n", "r">>
    /\ set_text_calls = <<<<"L1", <<"-", "1">>>>>>

\* C10 (as claimed): the lastValue of every binding has at most max_width
\* characters.
C10_WidthAsClaimed ==
    \A d \in DOMAIN gc : \A i \in DOMAIN gc[d] : Len(gc[d][i].data) <= max_width

\* C10 (amended): the lastValue of every binding has at most max_width
\* characters or is the placeholder "---" that add stores uncut.
C10_WidthOrPlaceholder ==
    \A d \in DOMAIN gc : \A i \in DOMAIN gc[d] :
        \/ Len(gc[d][i].data) <= max_width
        \/ gc[d][i].data = <<"-", "-", "-">>

\* C10 witness: with a width of 2 one binding was refreshed to a value cut to
\* 2 characters while another, never refreshed since add, holds "---".
C10_Witness ==
    /\ max_width = 2
    /\ \E d \in DOMAIN gc : \E i \in DOMAIN gc[d] :
          /\ gc[d][i].data = <<"U", "n">>
          /\ label_text[gc[d][i].label] = <<"U", "n">>
    /\ \E d \in DOMAIN gc : \E i \in DOMAIN gc[d] : gc[d][i].data = <<"-", "-", "-">>

-----------------------------------------------------------------------------
(* Properties of the colour functions: C6 is checked under SpecColor, C7   *)
(* under SpecPalette.                                                      *)

UpperHex == <<"0", "1", "2", "3", "4", "5", "6", "7", "8", "9", "A", "B", "C", "D", "E", "F">>
LowerHex == <<"0", "1", "2", "3", "4", "5", "6", "7", "8", "9", "a", "b", "c", "d", "e", "f">>

\* c is a hexadecimal character.
IsHexChar(c) == \E v \in 1..16 : c = UpperHex[v] \/ c = LowerHex[v]

\* The value of hexadecimal character c.
HexCharValue(c) == (CHOOSE v \in 1..16 : c = UpperHex[v] \/ c = LowerHex[v]) - 1

\* h without one leading '#', if it has one.
StripHash(h) == IF Len(h) > 0 /\ h[1] = "#" THEN SubSeq(h, 2, Len(h)) ELSE h

\* After an optional leading '#', h is exactly 6 hexadecimal characters.
IsHexColor(h) ==
    /\ Len(StripHash(h)) = 6
    /\ \A i \in 1..6 : IsHexChar(StripHash(h)[i])

\* The 8-bit channel k (0, 1, 2) of hex colour h.
Channel(h, k) ==
    16 * HexCharValue(StripHash(h)[2 * k + 1]) + HexCharValue(StripHash(h)[2 * k + 2])

\* t is channel value / 255 for each of the three channels of h, with alpha 1.
IsRgbaOf(t, h) ==
    /\ Len(t) = 4
    /\ \A k \in 0..2 : t[k + 1].den = 255 /\ t[k + 1].num = Channel(h, k)
    /\ t[4].num = t[4].den

PaletteNames ==
    {"white", "white_off", "white_pp", "cream", "gray20", "gray50", "gray60",
     "gray70", "gray80", "gray95", "gray_dk", "black", "green", "green_dk",
     "teal", "cyan", "olive", "red", "orange", "yellow", "blue", "purple",
     "br_red", "br_orange", "br_blue", "br_pink", "br_green", "br_yellow",
     "slate_lt", "slate_md", "slate_dk", "slate_vdk"}

\* h is a '#RRGGBB' code.
IsHashRRGGBB(h) ==
    /\ Len(h) = 7
    /\ h[1] = "#"
    /\ \A i \in 2..7 : IsHexChar(h[i])

\* C7: color_name_to_hex and color_name_to_rgba return for the names of the
\* palette and raise for every other string; color_name_to_rgba returns the
\* rgba value of the name's hex code; every palette value is a '#RRGGBB'
\* code; the palette never changes.
C7_PaletteLookup ==
    /\ _colors = Palette
    /\ DOMAIN _colors = PaletteNames
    /\ \A n \in DOMAIN _colors : IsHashRRGGBB(_colors[n])
    /\ (color_call.op = "color_name_to_hex" /\ color_ret.kind # "pending") =>
          IF color_call.name \in PaletteNames
          THEN color_ret.kind = "hex" /\ color_ret.hex = Palette[color_call.name]
          ELSE color_ret.kind = "ValueError"
    /\ (color_call.op = "color_name_to_rgba" /\ color_ret.kind # "pending") =>
          IF color_call.name \in PaletteNames
          THEN /\ color_ret.kind = "rgba"
               /\ IsRgbaOf(color_ret.rgba, Palette[color_call.name])
          ELSE color_ret.kind = "ValueError"

\* C7 witness: color_name_to_rgba has resolved slate_md, whose hex code
\* #80808d has a lower-case digit, to (128/255, 128/255, 141/255, 1).
C7_Witness ==
    /\ color_call.op = "color_name_to_rgba"
    /\ color_call.name = "slate_md"
    /\ color_ret.kind = "rgba"
    /\ color_ret.rgba[1].num = 128
    /\ color_ret.rgba[3].num = 141

-----------------------------------------------------------------------------
(* Properties of set_style, checked under SpecStyle.                       *)

\* The table of regions: <<selector, background colour, text colour>>, "-"
\* where the region sets no such colour.
RegionTable ==
    {
       <<"grid", "gray80", "-">>,
       <<"#light_grid", "gray20", "-">>,
       <<"#dark_grid", "gray70", "-">>,
       <<"#dark_box", "slate_dk", "-">>,
       <<"#med_box", "slate_md", "-">>,
       <<"#light_box", "slate_lt", "-">>,
       <<"#head_box", "blue", "-">>,
       <<"#warn_box", "red", "-">>,
       <<"#button_box", "slate_dk", "-">>,
       <<"#out_load_box", "slate_md", "-">>,
       <<"#out_load_label", "-", "white_off">>,
       <<"#bat_cap_box", "slate_md", "-">>,
       <<"#bat_cap_label", "-", "white_off">>,
       <<"#sys_stat_box", "slate_md", "-">>,
       <<"#sys_stat_label", "-", "white_off">>,
       <<"#bat_stat_box", "slate_md", "-">>,
       <<"#bat_stat_label", "-", "white_off">>,
       <<"#message_box", "gray50", "-">>,
       <<"#message_label", "-", "white_off">>,
       <<"#warn_label", "-", "white_pp">>,
       <<"#white_label", "-", "white_off">>,
       <<"#black_label", "-", "gray95">>,
       <<"#ppm_combo", "green", "black">>,
       <<"button", "slate_lt", "black">>,
       <<"entry", "green", "gray95">>
    }

\* The rule for "entry:selected" that set_style appends after the table's.
SelectedEntry == <<"entry:selected", "yellow", "white">>

\* The properties of a rule for table entry e under palette p.
PropsOf(e, p) ==
    (IF e[2] = "-" THEN <<>> ELSE <<<<"background-image", p[e[2]]>>>>)
    \o (IF e[3] = "-" THEN <<>> ELSE <<<<"color", p[e[3]]>>>>)

\* css is exactly one rule per entry of table, with the colours it lists.
IsRulePerEntry(css, table) ==
    /\ Len(css) = Cardinality(table)
    /\ \A e \in table :
          \E k \in DOMAIN css :
              /\ css[k].selector = e[1]
              /\ css[k].props = PropsOf(e, Palette)
              /\ css[k].text = ""
    /\ \A k \in DOMAIN css : \E e \in table : css[k].selector = e[1]

\* A call of set_style has been made.
StyleSet == style_calls > 0

\* css is the caller's text alone, as one rule.
IsCustomCss(css, text) ==
    /\ Len(css) = 1
    /\ css[1].text = text
    /\ css[1].selector = ""
    /\ css[1].props = <<>>

\* C8 (as claimed): the default style document is one rule per region of the
\* table and nothing else; a custom text is the document alone.
C8_DefaultStyleAsClaimed ==
    StyleSet =>
        IF css_str.t = "NoneType"
        THEN IsRulePerEntry(css_list, RegionTable)
        ELSE IsCustomCss(css_list, css_str.s)

\* C8 (amended): the default style document is one rule per region of the
\* table and one more rule, for "entry:selected" (background yellow, text
\* white); a custom text is the document alone.
C8_DefaultStyle ==
    StyleSet =>
        IF css_str.t = "NoneType"
        THEN IsRulePerEntry(css_list, RegionTable \cup {SelectedEntry})
        ELSE IsCustomCss(css_list, css_str.s)

\* C8 witness: the default style was set a second time, after a custom
\* text, and its document is the same 26 rules again.
C8_Witness ==
    /\ style_calls = 3
    /\ css_str.t = "NoneType"
    /\ Len(css_list) = 26
    /\ Len(screen) = 53
    /\ screen[27].text = "label { color: red; }"
    /\ \A k \in 1..26 : screen[k] = css_list[k] /\ screen[27 + k] = css_list[k]

=============================================================================
